---- MODULE Spec2Model ----
(***************************************************************************)
(* Model of the native epoll binding org_jetlang_epoll_EPoll.cpp.          *)
(*                                                                         *)
(* The binding is a thin layer over four kernel objects: an epoll          *)
(* instance (interest list + ready list), an eventfd counter used as the   *)
(* wake channel, the caller's datagram sockets, and a pool of mmsghdr      *)
(* receive slots.  The kernel objects are modelled by their documented     *)
(* behaviour (epoll(7), epoll_ctl(2), epoll_wait(2), eventfd(2),           *)
(* recvmmsg(2)); every JNI entry point is one action, except select,       *)
(* which can block and therefore is a call step and a return step.         *)
(*                                                                         *)
(* Two specifications share the state:                                     *)
(*   Spec      the readiness side: select, ctl, interrupt, clearInterrupt  *)
(*             and the environment making user descriptors ready;          *)
(*   SpecRecv  the batched receive side: recvmmsg and arriving datagrams.  *)
(* Neither side writes the other's variables.                              *)
(***************************************************************************)
EXTENDS Integers, Sequences, FiniteSets, TLC

(***************************************************************************)
(* Bounds of the model.                                                    *)
(***************************************************************************)
\* width in bits of the modelled eventfd counter word (uint64_t in the code)
WordBits == 2
\* init's maxSelectedEvents ranges over 1..MaxSelectedEvents
MaxSelectedEvents == 2
\* init's maxDatagramsPerRead ranges over 0..MaxDatagramsPerRead
MaxDatagramsPerRead == 2
\* init's readBufferBytes ranges over 1..MaxReadBufferBytes
MaxReadBufferBytes == 2
\* datagram payloads have 1..MaxPayloadLen bytes
MaxPayloadLen == 2
\* number of ctl calls explored
MaxCtl == 2
\* the tag other than the wake tag that ctl calls pass as idx
UserTag == 1
\* number of datagrams that arrive, over all sockets
MaxArrivals == 3

(***************************************************************************)
(* Descriptors.  epoll_create1 and eventfd return the two lowest free      *)
(* descriptor numbers; the caller's sockets are two more open descriptors; *)
(* BadFd is a number that names no open file.                              *)
(***************************************************************************)
epoll_fd == 3
efd == 4
SockBlocking == 5
SockNonBlocking == 6
BadFd == -1

Sockets == {SockBlocking, SockNonBlocking}
OpenFds == {epoll_fd, efd} \cup Sockets
\* the descriptors ctl is called with: no open file, the wake descriptor, and
\* the socket the caller multiplexes
CtlFds == {BadFd, efd, SockNonBlocking}

\* readiness conditions (EPOLLERR and EPOLLHUP never arise in the model)
EPOLLIN == "EPOLLIN"
EPOLLOUT == "EPOLLOUT"
EventTypes == {{EPOLLIN}, {EPOLLOUT}}

\* epoll_ctl operations, <sys/epoll.h>
EPOLL_CTL_ADD == 1
EPOLL_CTL_DEL == 2
EPOLL_CTL_MOD == 3
CtlOps == {EPOLL_CTL_ADD, EPOLL_CTL_DEL, EPOLL_CTL_MOD}

\* the data.u32 init gives the wake descriptor's registration
WakeTag == 0
Tags == {WakeTag, UserTag}
\* select's timeout: negative blocks without limit, 0 polls (a positive
\* timeout returns as 0 does, once it has run out)
Timeouts == {-1, 0}

\* largest value of the counter word: ULLONG_MAX at the modelled width
ULLONG_MAX == 2^WordBits - 1
Words == 0..ULLONG_MAX

\* contents of malloc'ed memory nothing has written yet: an event, a byte
UninitEvent == [events |-> {"uninit"}, data |-> -1]
UninitByte == -1

Range(s) == {s[i] : i \in 1..Len(s)}
Min(a, b) == IF a < b THEN a ELSE b

VARIABLES
  \* struct epoll_state
  max_events,     \* state->max_events
  events,         \* state->events: max_events records
  udp_rcv_len,    \* state->udp_rcv_len
  udp_rcv,        \* state->udp_rcv: per slot [msg_len, iov_len]
  iov_base,       \* the slots' buffers: per slot a sequence of bytes
  \* kernel objects
  efd_count,      \* the eventfd counter
  interest,       \* the epoll interest list: fd -> [events, data]
  rdllist,        \* the epoll ready list, head first
  fready,         \* per socket, the readiness conditions that hold
  queue,          \* per socket, the datagrams pending, oldest first
  \* the thread in select
  wpc,            \* "idle" or "in_wait"
  timeout,        \* select's timeout argument while in_wait, else 0
  result,         \* <<select's last return value>>, <<>> before the first return
  \* ctl
  ctl_ret,        \* what the last ctl call returned ("none" before the first)
  nctl,           \* ctl calls made
  \* the thread in recvmmsg
  rpc,            \* "idle" or "in_recvmmsg"
  rfd,            \* recvmmsg's fd argument
  rres,           \* <<[ret |-> recvmmsg's last return value, errno |-> its errno]>>,
                  \* <<>> before the first return
  \* history, read by the properties only
  removed,        \* descriptors taken out by ctl(DEL) and not added since
  usertag,        \* per descriptor, the idx of the last ctl(ADD/MOD) that succeeded
  sigs,           \* interrupt calls since the last clearInterrupt, capped at 2
  cleared,        \* -1, or the value of sigs at the last clearInterrupt when no
                  \* interrupt was called since
  arrived,        \* per socket, every datagram that ever arrived
  delivered,      \* per socket, what recvmmsg calls left in the slots, in order
  \* the process: descriptors, heap and the thread in init / freeNativeMemory
  open_fds,       \* the descriptors init opened that are open
  heap,           \* per block malloc returned, the number of times it was freed
  msg_iov,        \* per slot, the addresses in its header: msg_hdr.msg_iov (the
                  \* iovec) and msg_hdr.msg_iov->iov_base (the buffer)
  init_ret,       \* what init came to: "state" (it returned the state's
                  \* address) or "crash" (the process died in it)
  lpc,            \* "live", "in_free" (in freeNativeMemory), "freed", "crashed"
  dpc,            \* the statement of freeNativeMemory to execute next
  \* history, read by the properties only
  init_fail,      \* the call of init that failed, [call |-> "none"] if none did
  oob             \* the slots outside the pool that freeNativeMemory read

pollVars == <<events, efd_count, interest, rdllist, fready, wpc, timeout, result,
              ctl_ret, nctl, removed, usertag, sigs, cleared>>
recvVars == <<udp_rcv, iov_base, queue, rpc, rfd, rres, arrived, delivered>>
lifeVars == <<open_fds, msg_iov, init_ret, lpc, dpc, init_fail, oob>>
vars == <<max_events, udp_rcv_len, pollVars, recvVars, lifeVars, heap>>

(***************************************************************************)
(* eventfd(2)                                                              *)
(***************************************************************************)
\* write(efd, &d, 8) on a non-blocking eventfd: adds d to the counter
EventfdWrite(count, d) ==
  IF d = ULLONG_MAX THEN [ret |-> -1, errno |-> "EINVAL", count |-> count]
  ELSE IF count + d >= ULLONG_MAX THEN [ret |-> -1, errno |-> "EAGAIN", count |-> count]
  ELSE [ret |-> 8, errno |-> "", count |-> count + d]

\* read(efd, &d, 8) on a non-blocking eventfd without EFD_SEMAPHORE: returns
\* the counter and resets it to zero
EventfdRead(count) ==
  IF count = 0 THEN [ret |-> -1, errno |-> "EAGAIN", count |-> 0]
  ELSE [ret |-> 8, errno |-> "", count |-> 0]

\* eventfd(2) flag: reads and writes that cannot proceed fail with EAGAIN
\* instead of waiting
EFD_NONBLOCK == "EFD_NONBLOCK"

\* read on an eventfd created with these flags waits for the counter to
\* become positive
EventfdReadWaits(count, flags) == count = 0 /\ EFD_NONBLOCK \notin flags

(***************************************************************************)
(* epoll(7)                                                                *)
(***************************************************************************)
\* poll on an open file: the eventfd is readable while its counter is
\* positive and writable while a 1 can still be added
Poll(fd) ==
  IF fd = efd
  THEN (IF efd_count > 0 THEN {EPOLLIN} ELSE {})
         \cup (IF efd_count < ULLONG_MAX - 1 THEN {EPOLLOUT} ELSE {})
  ELSE IF fd \in Sockets THEN fready[fd] ELSE {}

\* the events epoll reports for an interest-list entry
Revents(il, fd) == Poll(fd) \cap il[fd].events

Link(list, fd) == IF fd \in Range(list) THEN list ELSE Append(list, fd)
Unlink(list, fd) == SelectSeq(list, LAMBDA x : x # fd)

\* the wake-up callback of a file whose condition c has just come to hold
Wakeup(il, list, fd, c) ==
  IF fd \in DOMAIN il /\ c \in il[fd].events THEN Link(list, fd) ELSE list

\* epoll_ctl(epfd, op, fd, ev) on interest list il and ready list list
EpollCtl(il, list, op, fd, ev) ==
  LET fail(e) == [ret |-> -1, errno |-> e, interest |-> il, rdllist |-> list]
      put == [x \in (DOMAIN il) \cup {fd} |-> IF x = fd THEN ev ELSE il[x]]
      relink == IF Poll(fd) \cap ev.events # {} THEN Link(list, fd) ELSE list
  IN  IF fd \notin OpenFds THEN fail("EBADF")
      ELSE IF fd = epoll_fd THEN fail("EINVAL")
      ELSE IF op = EPOLL_CTL_ADD
        THEN IF fd \in DOMAIN il THEN fail("EEXIST")
             ELSE [ret |-> 0, errno |-> "", interest |-> put, rdllist |-> relink]
      ELSE IF op = EPOLL_CTL_DEL
        THEN IF fd \notin DOMAIN il THEN fail("ENOENT")
             ELSE [ret |-> 0, errno |-> "",
                   interest |-> [x \in (DOMAIN il) \ {fd} |-> il[x]],
                   rdllist |-> Unlink(list, fd)]
      ELSE IF op = EPOLL_CTL_MOD
        THEN IF fd \notin DOMAIN il THEN fail("ENOENT")
             ELSE [ret |-> 0, errno |-> "", interest |-> put, rdllist |-> relink]
      ELSE fail("EINVAL")

\* the scan of the ready list by epoll_wait: entries are taken from the head;
\* one whose condition holds is sent, one whose condition no longer holds is
\* dropped; the scan stops once maxevents were sent
RECURSIVE EpSendEvents(_, _, _, _)
EpSendEvents(il, list, sent, maxevents) ==
  IF list = <<>> \/ Len(sent) >= maxevents
  THEN [sent |-> sent, rest |-> list]
  ELSE IF Revents(il, Head(list)) # {}
       THEN EpSendEvents(il, Tail(list), Append(sent, Head(list)), maxevents)
       ELSE EpSendEvents(il, Tail(list), sent, maxevents)

\* epoll_wait(epfd, events, maxevents, timeout): the entries sent, in order,
\* and the ready list after it: a level-triggered entry that was sent goes
\* back to the tail
EpollWait(il, list, maxevents) ==
  LET s == EpSendEvents(il, list, <<>>, maxevents)
  IN  [sent |-> s.sent, rdllist |-> s.rest \o s.sent]

(***************************************************************************)
(* recvmmsg(2) on datagram sockets                                         *)
(***************************************************************************)
\* the datagrams that arrive: L bytes, told apart by every byte
Datagram(L) == [i \in 1..L |-> L + i]
Datagrams == {Datagram(L) : L \in 1..MaxPayloadLen}

MSG_PEEK == "MSG_PEEK"
MSG_DONTWAIT == "MSG_DONTWAIT"

\* one datagram received into one slot: the bytes that fit are copied to the
\* start of the buffer and msg_len is their number; the rest is cut off
RecvInto(hdr, buf, dgram) ==
  LET n == Min(Len(dgram), hdr.iov_len)
  IN  [hdr |-> [hdr EXCEPT !.msg_len = n],
       buf |-> [j \in 1..Len(buf) |-> IF j <= n THEN dgram[j] ELSE buf[j]]]

\* recvmmsg(fd, vec, vlen, flags, NULL) with q the socket's pending datagrams.
\* The kernel receives datagram after datagram until vlen are received or one
\* receive fails; a failure after the first datagram ends the call with the
\* count.  A receive on an empty queue fails with EAGAIN if the socket is
\* non-blocking or MSG_DONTWAIT is given, and waits otherwise.  The call takes
\* effect at its last receive: the datagrams taken are the head of the queue
\* at that moment, so it is one step, enabled when it does not wait.
Recvmmsg(fd, q, vec, bufs, vlen, flags) ==
  LET fail(e) == [waits |-> FALSE, ret |-> -1, errno |-> e,
                  vec |-> vec, bufs |-> bufs, q |-> q]
      nowait == fd = SockNonBlocking \/ MSG_DONTWAIT \in flags
      n == Min(Len(q), vlen)
      src(i) == IF MSG_PEEK \in flags THEN q[1] ELSE q[i]
      got(i) == RecvInto(vec[i], bufs[i], src(i))
  IN  IF fd \notin OpenFds THEN fail("EBADF")
      ELSE IF fd \notin Sockets THEN fail("ENOTSOCK")
      ELSE IF vlen = 0 THEN [fail("") EXCEPT !.ret = 0]
      ELSE IF Len(q) = 0 /\ nowait THEN fail("EAGAIN")
      ELSE IF Len(q) < vlen /\ ~nowait THEN [fail("") EXCEPT !.waits = TRUE]
      ELSE [waits |-> FALSE, ret |-> n, errno |-> "",
            vec |-> [i \in 1..Len(vec) |-> IF i <= n THEN got(i).hdr ELSE vec[i]],
            bufs |-> [i \in 1..Len(bufs) |-> IF i <= n THEN got(i).buf ELSE bufs[i]],
            q |-> IF MSG_PEEK \in flags THEN q ELSE SubSeq(q, n + 1, Len(q))]

(***************************************************************************)
(* The system calls of the JNI entry points                                *)
(***************************************************************************)
\* an eventfd created already signalled, the counter at its largest value
InitvalSignalled == ULLONG_MAX - 1

\* init, line 62: the initval argument of eventfd(0, EFD_NONBLOCK)
Initval == 0

\* an eventfd created without EFD_NONBLOCK
EventfdFlagsBlocking == {}

\* init, line 62: the flags argument of eventfd(0, EFD_NONBLOCK)
EventfdFlags == {EFD_NONBLOCK}

\* init, lines 63-64: the wake descriptor's registration (EPOLLHUP and
\* EPOLLERR are reported whatever the mask)
efd_event == [events |-> {EPOLLIN}, data |-> WakeTag]

\* select with the wrong capacity: every ready entry is written
SelectUncapped(il, list, maxevents) == EpollWait(il, list, Len(list))

\* select, line 27: epoll_wait(state->fd, state->events, state->max_events, timeout)
Select(il, list, maxevents) == EpollWait(il, list, maxevents)

\* ctl that stores the descriptor number as the event's data
CtlEpollCtlTagIsFd(il, list, op, eventTypes, fd, idx) ==
  EpollCtl(il, list, op, fd, [events |-> eventTypes, data |-> fd])

\* ctl that passes EPOLL_CTL_MOD whatever op says
CtlEpollCtlAlwaysMod(il, list, op, eventTypes, fd, idx) ==
  EpollCtl(il, list, EPOLL_CTL_MOD, fd, [events |-> eventTypes, data |-> idx])

\* ctl, lines 122-125: the event is filled from eventTypes and idx and handed
\* to epoll_ctl(state->fd, op, fd, event)
CtlEpollCtl(il, list, op, eventTypes, fd, idx) ==
  EpollCtl(il, list, op, fd, [events |-> eventTypes, data |-> idx])

\* ctl, lines 125-127: what ctl returns given epoll_ctl's result: the address
\* of the event it allocated, whatever the result was
CtlReturn(epoll_ctl_result) == "event_address"

\* clearInterrupt reading fewer than 8 bytes: the read fails with EINVAL
ClearInterruptShortRead(count) == [ret |-> -1, errno |-> "EINVAL", count |-> count]

\* clearInterrupt, lines 114-115: read(state->efd, &d, sizeof(uint64_t))
ClearInterruptRead(count) == EventfdRead(count)

\* interrupt, lines 107-108: write(state->efd, &d, sizeof(uint64_t)); d is
\* never initialised, so the value written is any word
InterruptWrite(count, d) == EventfdWrite(count, d)

\* recvmmsg that hands the kernel one slot only
RecvmmsgCallOneSlot(fd, q, vec, bufs, vlen) ==
  Recvmmsg(fd, q, vec, bufs, Min(vlen, 1), {})

\* recvmmsg that passes MSG_PEEK
RecvmmsgCallPeek(fd, q, vec, bufs, vlen) ==
  Recvmmsg(fd, q, vec, bufs, vlen, {MSG_PEEK})

\* recvmmsg that clears every header's msg_len before the call
RecvmmsgCallResetsPool(fd, q, vec, bufs, vlen) ==
  Recvmmsg(fd, q, [i \in 1..Len(vec) |-> [vec[i] EXCEPT !.msg_len = 0]], bufs, vlen, {})

\* recvmmsg, line 84: recvmmsg(fd, state->udp_rcv, state->udp_rcv_len, 0, NULL)
RecvmmsgCall(fd, q, vec, bufs, vlen) ==
  Recvmmsg(fd, q, vec, bufs, vlen, {})

(***************************************************************************)
(* The heap: malloc(3), free(3)                                            *)
(***************************************************************************)
NoInterest == [x \in {} |-> efd_event]

\* the block a malloc call returned: what it is for and, for a slot's block,
\* the slot
Block(what, slot) == <<what, slot>>
NULL == Block("NULL", 0)
NoBlocks == [b \in {} |-> 0]

Malloc(h, b) == [x \in (DOMAIN h) \cup {b} |-> IF x = b THEN 0 ELSE h[x]]
\* free(NULL) does nothing
Free(h, ptr) == IF ptr \in DOMAIN h THEN [h EXCEPT ![ptr] = @ + 1] ELSE h
\* the blocks allocated and not freed
Live(h) == {b \in DOMAIN h : h[b] = 0}

(***************************************************************************)
(* init, lines 54-78                                                       *)
(***************************************************************************)
InitCall(call, what, slot) == [call |-> call, what |-> what, slot |-> slot]

\* the calls of init that acquire something, in the order of lines 56-71
InitCalls(maxDatagramsPerRead) ==
  << InitCall("epoll_create1", "fd", 0),
     InitCall("malloc", "state", 0),
     InitCall("malloc", "events", 0),
     InitCall("eventfd", "efd", 0),
     InitCall("epoll_ctl", "efd_event", 0),
     InitCall("malloc", "udp_rcv", 0) >>
  \o [k \in 1..(2 * maxDatagramsPerRead) |->
        IF k % 2 = 1 THEN InitCall("malloc", "buffer", (k + 1) \div 2)
        ELSE InitCall("malloc", "iovec", k \div 2)]

NoFailure == InitCall("none", "none", 0)
\* the call of init that fails, if one does
InitFailures(maxDatagramsPerRead) == {NoFailure} \cup Range(InitCalls(maxDatagramsPerRead))

\* init tests no result.  It writes through the address of the state (line
\* 59), of the slot array (line 68, for a pool that is not empty) and of each
\* iovec (line 72): when that malloc returned NULL the process dies there
InitCrashes(f, maxDatagramsPerRead) ==
  /\ f.call = "malloc"
  /\ \/ f.what \in {"state", "iovec"}
     \/ f.what = "udp_rcv" /\ maxDatagramsPerRead > 0

\* the calls of init that succeeded when f is the call that fails: every
\* other call that was reached; epoll_ctl succeeds on two open descriptors
InitDone(f, maxDatagramsPerRead) ==
  LET calls == InitCalls(maxDatagramsPerRead)
      at == IF f = NoFailure THEN Len(calls) + 1
            ELSE CHOOSE k \in 1..Len(calls) : calls[k] = f
      last == IF InitCrashes(f, maxDatagramsPerRead) THEN at - 1 ELSE Len(calls)
      reached == {calls[k] : k \in 1..last} \ {f}
  IN  IF f.call \in {"epoll_create1", "eventfd"}
      THEN reached \ {InitCall("epoll_ctl", "efd_event", 0)}
      ELSE reached

\* the state init leaves when f is the call that fails
CreateOutcome(f, maxSelectedEvents, maxDatagramsPerRead, readBufferBytes) ==
  LET done == InitDone(f, maxDatagramsPerRead)
      has(what, slot) == InitCall("malloc", what, slot) \in done
      crashed == InitCrashes(f, maxDatagramsPerRead)
      c == EpollCtl(NoInterest, <<>>, EPOLL_CTL_ADD, efd, efd_event)
      added == InitCall("epoll_ctl", "efd_event", 0) \in done
  IN  /\ max_events = maxSelectedEvents
      /\ events = IF has("events", 0)
                  THEN [i \in 1..maxSelectedEvents |-> UninitEvent] ELSE <<>>
      /\ efd_count = Initval
      /\ fready = [fd \in Sockets |-> {EPOLLOUT}]
      /\ interest = IF added THEN c.interest ELSE NoInterest
      /\ rdllist = IF added THEN c.rdllist ELSE <<>>
      /\ udp_rcv_len = maxDatagramsPerRead
      /\ udp_rcv = [i \in 1..maxDatagramsPerRead |->
                      [msg_len |-> 0, iov_len |-> readBufferBytes]]
      /\ iov_base = [i \in 1..maxDatagramsPerRead |->
                       IF has("buffer", i)
                       THEN [j \in 1..readBufferBytes |-> UninitByte] ELSE <<>>]
      /\ msg_iov = [i \in 1..maxDatagramsPerRead |->
                      [msg_iov |-> IF has("iovec", i) THEN Block("iovec", i) ELSE NULL,
                       iov_base |-> IF has("buffer", i) THEN Block("buffer", i) ELSE NULL]]
      \* a process that died holds nothing
      /\ open_fds = IF crashed THEN {}
                    ELSE (IF InitCall("epoll_create1", "fd", 0) \in done THEN {epoll_fd} ELSE {})
                           \cup (IF InitCall("eventfd", "efd", 0) \in done THEN {efd} ELSE {})
      /\ heap = IF crashed THEN NoBlocks
                ELSE [b \in {Block(d.what, d.slot) : d \in {x \in done : x.call = "malloc"}} |-> 0]
      /\ init_ret = IF crashed THEN "crash" ELSE "state"
      /\ lpc = IF crashed THEN "crashed" ELSE "live"
      /\ dpc = 1
      /\ init_fail = f
      /\ oob = {}

(***************************************************************************)
(* Initial state: the state init returns, lines 54-78                      *)
(***************************************************************************)
\* init with every call succeeding
Create(maxSelectedEvents, maxDatagramsPerRead, readBufferBytes) ==
  CreateOutcome(NoFailure, maxSelectedEvents, maxDatagramsPerRead, readBufferBytes)

\* no entry point has been called yet
Fresh ==
  /\ queue = [fd \in Sockets |-> <<>>]
  /\ wpc = "idle" /\ timeout = 0 /\ result = <<>>
  /\ ctl_ret = "none" /\ nctl = 0
  /\ rpc = "idle" /\ rfd = BadFd /\ rres = <<>>
  /\ removed = {} /\ usertag = NoInterest
  /\ sigs = 0 /\ cleared = -1
  /\ arrived = [fd \in Sockets |-> <<>>]
  /\ delivered = [fd \in Sockets |-> <<>>]

\* the readiness side is explored for every event capacity, with the largest
\* receive pool
Init ==
  /\ \E me \in 1..MaxSelectedEvents : Create(me, MaxDatagramsPerRead, MaxReadBufferBytes)
  /\ Fresh

\* the receive side is explored for every pool size and buffer size, with
\* the smallest event capacity
InitRecv ==
  /\ \E md \in 0..MaxDatagramsPerRead, rb \in 1..MaxReadBufferBytes : Create(1, md, rb)
  /\ Fresh

(***************************************************************************)
(* select                                                                  *)
(***************************************************************************)
SelectEnter(t) ==
  /\ wpc = "idle"
  /\ wpc' = "in_wait" /\ timeout' = t
  /\ UNCHANGED <<max_events, udp_rcv_len, lifeVars, heap, events, efd_count, interest, rdllist,
                 fready, result, ctl_ret, nctl, removed, usertag, sigs, cleared, recvVars>>

\* the events written to state->events for the entries sent
EventsWritten(sent) ==
  [i \in 1..Len(sent) |->
     [events |-> Revents(interest, sent[i]), data |-> interest[sent[i]].data]]

\* epoll_wait returns: with the events sent if there are any, with 0 if
\* there are none and the timeout allows it
SelectReturn ==
  /\ wpc = "in_wait"
  /\ LET w == Select(interest, rdllist, max_events)
         ev == EventsWritten(w.sent)
     IN  /\ w.sent # <<>> \/ timeout >= 0
         /\ result' = <<Len(w.sent)>>
         /\ rdllist' = w.rdllist
         /\ events' = [i \in 1..Len(events) |-> IF i <= Len(ev) THEN ev[i] ELSE events[i]]
  /\ wpc' = "idle" /\ timeout' = 0
  /\ UNCHANGED <<max_events, udp_rcv_len, lifeVars, heap, efd_count, interest, fready,
                 ctl_ret, nctl, removed, usertag, sigs, cleared, recvVars>>

\* epoll_wait was woken, found no entry whose condition holds, and sleeps on
SelectSleep ==
  /\ wpc = "in_wait" /\ timeout < 0
  /\ rdllist # <<>>
  /\ LET w == Select(interest, rdllist, max_events)
     IN  w.sent = <<>> /\ rdllist' = w.rdllist
  /\ UNCHANGED <<max_events, udp_rcv_len, lifeVars, heap, events, efd_count, interest, fready,
                 wpc, timeout, result, ctl_ret, nctl, removed, usertag, sigs, cleared, recvVars>>

(***************************************************************************)
(* ctl                                                                     *)
(***************************************************************************)
Ctl(op, eventTypes, fd, idx) ==
  /\ nctl < MaxCtl
  /\ LET c == CtlEpollCtl(interest, rdllist, op, eventTypes, fd, idx)
         ok == c.ret = 0
     IN  /\ interest' = c.interest
         /\ rdllist' = c.rdllist
         /\ ctl_ret' = CtlReturn(c.ret)
         /\ removed' = IF ok /\ op = EPOLL_CTL_DEL THEN removed \cup {fd}
                       ELSE IF ok /\ op = EPOLL_CTL_ADD THEN removed \ {fd}
                       ELSE removed
         /\ usertag' = IF ok /\ op \in {EPOLL_CTL_ADD, EPOLL_CTL_MOD}
                       THEN [x \in (DOMAIN usertag) \cup {fd} |->
                               IF x = fd THEN idx ELSE usertag[x]]
                       ELSE IF ok /\ op = EPOLL_CTL_DEL
                       THEN [x \in (DOMAIN usertag) \ {fd} |-> usertag[x]]
                       ELSE usertag
  /\ nctl' = nctl + 1
  /\ heap' = Malloc(heap, Block("event", nctl + 1))
  /\ UNCHANGED <<max_events, udp_rcv_len, lifeVars, events, efd_count, fready, wpc, timeout,
                 result, sigs, cleared, recvVars>>

(***************************************************************************)
(* interrupt and clearInterrupt                                            *)
(***************************************************************************)
Interrupt(d) ==
  /\ LET w == InterruptWrite(efd_count, d)
     IN  /\ efd_count' = w.count
         /\ rdllist' = IF w.ret > 0 THEN Wakeup(interest, rdllist, efd, EPOLLIN)
                       ELSE rdllist
  /\ sigs' = Min(sigs + 1, 2) /\ cleared' = -1
  /\ UNCHANGED <<max_events, udp_rcv_len, lifeVars, heap, events, interest, fready, wpc, timeout,
                 result, ctl_ret, nctl, removed, usertag, recvVars>>

ClearInterrupt ==
  /\ ~EventfdReadWaits(efd_count, EventfdFlags)
  /\ LET r == ClearInterruptRead(efd_count)
     IN  /\ efd_count' = r.count
         /\ rdllist' = IF r.ret > 0 THEN Wakeup(interest, rdllist, efd, EPOLLOUT)
                       ELSE rdllist
  /\ sigs' = 0 /\ cleared' = sigs
  /\ UNCHANGED <<max_events, udp_rcv_len, lifeVars, heap, events, interest, fready, wpc, timeout,
                 result, ctl_ret, nctl, removed, usertag, recvVars>>

(***************************************************************************)
(* The environment of the readiness side: the multiplexed socket becomes   *)
(* readable, or stops being readable (a datagram socket stays writable)    *)
(***************************************************************************)
FdReady(fd) ==
  /\ EPOLLIN \notin fready[fd]
  /\ fready' = [fready EXCEPT ![fd] = @ \cup {EPOLLIN}]
  /\ rdllist' = Wakeup(interest, rdllist, fd, EPOLLIN)
  /\ UNCHANGED <<max_events, udp_rcv_len, lifeVars, heap, events, efd_count, interest, wpc, timeout,
                 result, ctl_ret, nctl, removed, usertag, sigs,
                 cleared, recvVars>>

FdNotReady(fd) ==
  /\ EPOLLIN \in fready[fd]
  /\ fready' = [fready EXCEPT ![fd] = @ \ {EPOLLIN}]
  /\ UNCHANGED <<max_events, udp_rcv_len, lifeVars, heap, events, efd_count, interest, rdllist, wpc,
                 timeout, result, ctl_ret, nctl, removed, usertag,
                 sigs, cleared, recvVars>>

(***************************************************************************)
(* recvmmsg                                                                *)
(***************************************************************************)
\* the descriptors recvmmsg is called with
RecvFds == {BadFd, efd} \cup Sockets

RecvmmsgEnter(fd) ==
  /\ rpc = "idle"
  /\ rpc' = "in_recvmmsg" /\ rfd' = fd
  /\ UNCHANGED <<max_events, udp_rcv_len, lifeVars, heap, pollVars, udp_rcv, iov_base, queue, rres,
                 arrived, delivered>>

\* the pending datagrams of a descriptor (none if it is no socket)
Pending(fd) == IF fd \in Sockets THEN queue[fd] ELSE <<>>

\* what the first n slots hold: the bytes each received
SlotData(vec, bufs, n) == [i \in 1..n |-> SubSeq(bufs[i], 1, vec[i].msg_len)]

RecvmmsgReturn ==
  /\ rpc = "in_recvmmsg"
  /\ LET r == RecvmmsgCall(rfd, Pending(rfd), udp_rcv, iov_base, udp_rcv_len)
     IN  /\ ~r.waits
         /\ udp_rcv' = r.vec
         /\ iov_base' = r.bufs
         /\ queue' = IF rfd \in Sockets THEN [queue EXCEPT ![rfd] = r.q] ELSE queue
         /\ rres' = <<[ret |-> r.ret, errno |-> r.errno]>>
         /\ delivered' = IF r.ret > 0
                         THEN [delivered EXCEPT ![rfd] = @ \o SlotData(r.vec, r.bufs, r.ret)]
                         ELSE delivered
  /\ rpc' = "idle" /\ rfd' = BadFd
  /\ UNCHANGED <<max_events, udp_rcv_len, lifeVars, heap, pollVars, arrived>>

\* the environment of the receive side: a datagram arrives on a socket
Arrive(fd, dgram) ==
  /\ Len(arrived[SockBlocking]) + Len(arrived[SockNonBlocking]) < MaxArrivals
  /\ queue' = [queue EXCEPT ![fd] = Append(@, dgram)]
  /\ arrived' = [arrived EXCEPT ![fd] = Append(@, dgram)]
  /\ UNCHANGED <<max_events, udp_rcv_len, lifeVars, heap, pollVars, udp_rcv, iov_base, rpc, rfd, rres,
                 delivered>>

Next ==
  \/ \E t \in Timeouts : SelectEnter(t)
  \/ SelectReturn
  \/ SelectSleep
  \/ \E op \in CtlOps, et \in EventTypes, fd \in CtlFds, idx \in Tags : Ctl(op, et, fd, idx)
  \/ \E d \in Words : Interrupt(d)
  \/ ClearInterrupt
  \/ FdReady(SockNonBlocking)
  \/ FdNotReady(SockNonBlocking)

Spec == Init /\ [][Next]_vars

NextRecv ==
  \/ \E fd \in RecvFds : RecvmmsgEnter(fd)
  \/ RecvmmsgReturn
  \/ \E fd \in Sockets, dgram \in Datagrams : Arrive(fd, dgram)

SpecRecv == InitRecv /\ [][NextRecv]_vars

(***************************************************************************)
(* freeNativeMemory, lines 92-102, and the lifetime of a state              *)
(***************************************************************************)
Statement(op, what, slot) == [op |-> op, what |-> what, slot |-> slot]

\* freeNativeMemory that frees the event array before it closes anything
FreeNativeMemoryFreesFirst ==
  << Statement("free", "events", 0),
     Statement("close", "fd", 0),
     Statement("close", "efd", 0),
     Statement("free", "buffer", 1),
     Statement("free", "iovec", 1),
     Statement("free", "udp_rcv", 0),
     Statement("free", "state", 0) >>

\* the statements of freeNativeMemory, lines 95-101; state->udp_rcv->... is
\* the first slot's header
FreeNativeMemory ==
  << Statement("close", "fd", 0),
     Statement("close", "efd", 0),
     Statement("free", "events", 0),
     Statement("free", "buffer", 1),
     Statement("free", "iovec", 1),
     Statement("free", "udp_rcv", 0),
     Statement("free", "state", 0) >>

\* the state was returned by an init whose calls all succeeded, and no
\* freeNativeMemory has begun
Alive == lpc = "live" /\ init_fail = NoFailure

\* the address a free statement passes to free
FreeArg(st) ==
  IF st.what = "buffer" THEN msg_iov[st.slot].iov_base
  ELSE IF st.what = "iovec" THEN msg_iov[st.slot].msg_iov
  ELSE Block(st.what, 0)

\* one statement of freeNativeMemory.  Reading the header of a slot the pool
\* does not have is a read outside the slot array: the address read is
\* anything, and freeing it kills the process or goes unnoticed
FreeNativeMemoryStep ==
  /\ \/ Alive /\ wpc = "idle" /\ rpc = "idle"
     \/ lpc = "in_free"
  /\ LET st == FreeNativeMemory[dpc]
         outside == st.slot > udp_rcv_len
         last == dpc = Len(FreeNativeMemory)
     IN  /\ dpc' = dpc + 1
         /\ IF st.op = "close"
            THEN /\ open_fds' = open_fds \ {IF st.what = "fd" THEN epoll_fd ELSE efd}
                 /\ interest' = IF st.what = "fd" THEN NoInterest
                                ELSE [x \in (DOMAIN interest) \ {efd} |-> interest[x]]
                 /\ rdllist' = IF st.what = "fd" THEN <<>> ELSE Unlink(rdllist, efd)
                 /\ lpc' = IF last THEN "freed" ELSE "in_free"
                 /\ UNCHANGED <<heap, oob>>
            ELSE IF outside
            THEN /\ oob' = oob \cup {st.slot}
                 /\ lpc' \in {"crashed", IF last THEN "freed" ELSE "in_free"}
                 /\ UNCHANGED <<heap, open_fds, interest, rdllist>>
            ELSE /\ heap' = Free(heap, FreeArg(st))
                 /\ lpc' = IF last THEN "freed" ELSE "in_free"
                 /\ UNCHANGED <<open_fds, oob, interest, rdllist>>
  /\ UNCHANGED <<max_events, udp_rcv_len, events, efd_count, fready, wpc, timeout,
                 result, ctl_ret, nctl, removed, usertag, sigs, cleared, recvVars,
                 msg_iov, init_ret, init_fail>>

\* the lifetime of a state is explored for every pool size and every call of
\* init failing, with the smallest event capacity and buffer size
InitLife ==
  /\ \E md \in 0..MaxDatagramsPerRead :
       \E f \in InitFailures(md) : CreateOutcome(f, 1, md, 1)
  /\ Fresh

\* the calls made on a live state: every entry point, on the multiplexed
\* socket, with one value for each of the other arguments
NextLife ==
  \/ Alive /\ SelectEnter(0)
  \/ Alive /\ SelectReturn
  \/ Alive /\ \E op \in CtlOps : Ctl(op, {EPOLLOUT}, SockNonBlocking, UserTag)
  \/ Alive /\ Interrupt(1)
  \/ Alive /\ ClearInterrupt
  \/ Alive /\ RecvmmsgEnter(SockNonBlocking)
  \/ Alive /\ RecvmmsgReturn
  \/ Alive /\ Arrive(SockNonBlocking, Datagram(1))
  \/ FreeNativeMemoryStep

SpecLife == InitLife /\ [][NextLife]_vars

(***************************************************************************)
(* Properties of the readiness side                                        *)
(***************************************************************************)
\* the step is a return of select
IsSelectReturn == wpc = "in_wait" /\ wpc' = "idle"

\* the step is an interrupt call
IsInterrupt == \E d \in Words : Interrupt(d)

\* one of the first n events of the buffer evs carries tag t
Tagged(evs, n, t) ==
  \E i \in 1..Min(n, Len(evs)) : evs[i].data = t

\* the registered descriptors whose registration is ready
ReadyFds == {fd \in DOMAIN interest : Revents(interest, fd) # {}}

\* the wake descriptor is registered as init registered it
WakeRegistered == efd \in DOMAIN interest /\ interest[efd] = efd_event

\* nothing is ready, except that the wake descriptor may be readable
NoneReadyButWake ==
  \A fd \in DOMAIN interest :
    Revents(interest, fd) \subseteq (IF fd = efd THEN {EPOLLIN} ELSE {})

\* a select returning now would report the wake tag
WouldReportWake ==
  LET w == Select(interest, rdllist, max_events)
  IN  \E i \in 1..Len(w.sent) : interest[w.sent[i]].data = WakeTag

\* C1: when a thread is blocked in select with a negative timeout and no
\* registered descriptor is ready, an interrupt call lets that select return
\* with the wake tag 0 among its events, whatever value interrupt writes.
C1_InterruptWakesBlockedSelect ==
  [][(/\ wpc = "in_wait" /\ timeout < 0
      /\ WakeRegistered /\ ReadyFds = {}
      /\ IsInterrupt)
     => WouldReportWake']_vars

\* C2: while a signal is recorded (the wake counter is positive), every
\* select that returns has the wake tag 0 among the events it wrote.
C2_SelectReportsWakeUntilClear ==
  [][(IsSelectReturn /\ WakeRegistered /\ efd_count > 0)
     => Tagged(events', result'[1], WakeTag)]_vars

\* C3: after one or more interrupt calls and then a clearInterrupt with no
\* interrupt after it, the wake counter is 0, and a select with timeout 0 that
\* finds no descriptor ready for another reason returns 0.
C3_ClearConsumesEverySignal ==
  [][/\ cleared' >= 1 => efd_count' = 0
     /\ (IsSelectReturn /\ cleared >= 1 /\ timeout = 0 /\ NoneReadyButWake)
          => result' = <<0>>]_vars

\* two or more interrupts were coalesced by one clearInterrupt, and a select
\* with timeout 0 is about to return 0
C3_Witness ==
  /\ cleared = 2 /\ efd_count = 0
  /\ wpc = "in_wait" /\ timeout = 0 /\ NoneReadyButWake
  /\ result = <<1>>

\* the place of a linked descriptor in the ready list
Pos(list, fd) == CHOOSE i \in 1..Len(list) : list[i] = fd

\* the descriptor's registration was made through ctl and is ready
UserReady(fd) ==
  fd \in DOMAIN usertag /\ fd \in DOMAIN interest /\ Revents(interest, fd) # {}

\* C4: a descriptor registered through ctl with tag T whose registration is
\* ready is on the ready list; a select that returns writes an event with
\* data T for it (T as passed to ctl, not the descriptor number), or, when
\* the buffer was filled by entries ahead of it, moves it closer to the head
\* of the ready list; and no other step moves it back while it stays ready, so
\* a later select reports it.
C4_ReadyRegistrationReportedWithItsTag ==
  [][\A fd \in CtlFds \ {BadFd} :
       UserReady(fd) =>
         /\ fd \in Range(rdllist)
         /\ IsSelectReturn =>
              \/ \E i \in 1..result'[1] :
                   events'[i] = [events |-> Revents(interest, fd), data |-> usertag[fd]]
              \/ /\ fd \in Range(rdllist')
                 /\ Pos(rdllist', fd) < Pos(rdllist, fd)
         /\ (/\ ~IsSelectReturn
             /\ UserReady(fd)'
             /\ usertag'[fd] = usertag[fd]
             /\ interest'[fd] = interest[fd])
              => /\ fd \in Range(rdllist')
                 /\ Pos(rdllist', fd) <= Pos(rdllist, fd)]_vars

\* the socket was added with the user tag for EPOLLIN, became readable, and
\* select wrote its event, with that tag, behind the wake event
C4_Witness ==
  /\ max_events = 2 /\ wpc = "idle" /\ result = <<2>>
  /\ SockNonBlocking \in DOMAIN usertag
  /\ usertag[SockNonBlocking] = UserTag
  /\ events[1] = [events |-> {EPOLLIN}, data |-> WakeTag]
  /\ events[2] = [events |-> {EPOLLIN}, data |-> UserTag]

\* C5: a select that returns reports no descriptor that ctl(DEL) took out of
\* the interest list and that was not added again.
C5_NoEventAfterRemove ==
  [][IsSelectReturn
     => \A fd \in Range(Select(interest, rdllist, max_events).sent) :
          fd \notin removed]_vars

\* the socket was removed, is ready, and a select returned an event since
C5_Witness ==
  /\ SockNonBlocking \in removed
  /\ fready[SockNonBlocking] = {EPOLLIN, EPOLLOUT}
  /\ wpc = "idle" /\ result = <<1>>
  /\ events[1] = [events |-> {EPOLLIN}, data |-> WakeTag]

\* C6: the event buffer always has max_events entries and select never
\* returns more than max_events.
C6_AtMostMaxEvents ==
  /\ Len(events) = max_events
  /\ result # <<>> => result[1] <= max_events

\* select returned max_events although more registrations are ready
C6_Witness ==
  /\ wpc = "idle" /\ result = <<max_events>>
  /\ Cardinality(ReadyFds) > max_events

\* C7: right after init, with no ctl and no interrupt call made, a select
\* with timeout 0 returns 0.
C7_FreshSelectReturnsZero ==
  [][(IsSelectReturn /\ timeout = 0 /\ nctl = 0 /\ sigs = 0 /\ cleared = -1)
     => result' = <<0>>]_vars

\* select returned 0 on a state no ctl and no interrupt has touched
C7_Witness ==
  /\ nctl = 0 /\ sigs = 0 /\ cleared = -1
  /\ wpc = "idle" /\ result = <<0>>

\* C8: a ctl call whose epoll_ctl fails returns something a successful call
\* does not return.
C8_CtlReportsFailure ==
  [][\A op \in CtlOps, et \in EventTypes, fd \in CtlFds, idx \in Tags :
       (/\ Ctl(op, et, fd, idx)
        /\ CtlEpollCtl(interest, rdllist, op, et, fd, idx).ret < 0)
         => ctl_ret' # CtlReturn(0)]_vars

(***************************************************************************)
(* Properties of the receive side                                          *)
(***************************************************************************)
\* the step is a return of recvmmsg
IsRecvReturn == rpc = "in_recvmmsg" /\ rpc' = "idle"

\* the step is a return of recvmmsg from a socket with K datagrams pending,
\* 0 < K <= maxDatagrams
IsRecvOfWholeQueue ==
  /\ IsRecvReturn /\ rfd \in Sockets
  /\ Len(queue[rfd]) \in 1..udp_rcv_len

\* slots K+1.. are as they were
SlotsFromUnchanged(k) ==
  \A i \in (k + 1)..udp_rcv_len :
    udp_rcv'[i] = udp_rcv[i] /\ iov_base'[i] = iov_base[i]

\* the first n bytes of a datagram
Cut(dgram, n) == SubSeq(dgram, 1, Min(Len(dgram), n))

NoLossNoDuplicate ==
  \A fd \in Sockets :
    LET nd == Len(delivered[fd])
    IN  /\ nd + Len(queue[fd]) = Len(arrived[fd])
        /\ \A i \in 1..nd : delivered[fd][i] = Cut(arrived[fd][i], udp_rcv[1].iov_len)
        /\ \A i \in 1..Len(queue[fd]) : queue[fd][i] = arrived[fd][nd + i]

\* C10: a recvmmsg that returns from a socket with more than maxDatagrams
\* pending returns maxDatagrams and leaves the rest pending, in order; over
\* any number of calls no datagram is lost, delivered twice or out of order,
\* and every return from a socket with datagrams pending and a pool that is
\* not empty delivers at least one.
C10_BatchesDeliverEveryDatagramOnce ==
  [][/\ NoLossNoDuplicate'
     /\ (IsRecvReturn /\ rfd \in Sockets /\ Len(queue[rfd]) > udp_rcv_len)
          => /\ rres'[1].ret = udp_rcv_len
             /\ queue'[rfd] = SubSeq(queue[rfd], udp_rcv_len + 1, Len(queue[rfd]))
     /\ (IsRecvReturn /\ rfd \in Sockets /\ Len(queue[rfd]) > 0 /\ udp_rcv_len > 0)
          => Len(delivered'[rfd]) > Len(delivered[rfd])]_vars

\* three datagrams arrived on the non-blocking socket of a two-slot pool; a
\* first call took two and a second call the third
C10_Witness ==
  /\ udp_rcv_len = 2 /\ rpc = "idle" /\ rres = <<[ret |-> 1, errno |-> ""]>>
  /\ Len(arrived[SockNonBlocking]) = 3
  /\ Len(delivered[SockNonBlocking]) = 3
  /\ queue[SockNonBlocking] = <<>>

\* what the recvmmsg call of the thread in recvmmsg does in the current state
RecvNow == RecvmmsgCall(rfd, Pending(rfd), udp_rcv, iov_base, udp_rcv_len)

\* C11: recvmmsg never blocks: a call in progress can always return; a call on
\* a socket with no datagram pending returns 0; and a return without an
\* error lies in 0..maxDatagrams.
C11_ReceiveNeverBlocksAndReturnsZero ==
  [][/\ (rpc = "in_recvmmsg" /\ rfd \in Sockets) => ~RecvNow.waits
     /\ (IsRecvReturn /\ rfd \in Sockets /\ queue[rfd] = <<>>)
          => rres'[1].ret = 0
     /\ (IsRecvReturn /\ rres'[1].errno = "")
          => rres'[1].ret \in 0..udp_rcv_len]_vars

\* C12: a recvmmsg whose system call fails returns a value that is not the
\* count 0 and that tells the error: two calls that fail with different error
\* codes return different values.
C12_ReceiveFailureCarriesErrorCode ==
  [][(IsRecvReturn /\ RecvNow.ret < 0) =>
       /\ rres'[1].ret # 0
       /\ \A fd \in RecvFds :
            LET other == RecvmmsgCall(fd, Pending(fd), udp_rcv, iov_base, udp_rcv_len)
            IN  (other.ret < 0 /\ other.errno # RecvNow.errno)
                  => other.ret # rres'[1].ret]_vars

(***************************************************************************)
(* Properties of the wake registration                                     *)
(***************************************************************************)
\* C16: no registration made through ctl carries the wake tag 0, so an event
\* with tag 0 written by select is the wake descriptor's.
C16_WakeTagNeverAUserTag ==
  /\ \A fd \in (DOMAIN usertag) \ {efd} : usertag[fd] # WakeTag
  /\ \A fd \in (DOMAIN interest) \ {efd} : interest[fd].data # WakeTag

\* C17: whatever ctl calls were made, the wake descriptor is on the interest
\* list, with tag 0 and a mask that includes EPOLLIN.
C17_WakeRegistrationKept ==
  /\ efd \in DOMAIN interest
  /\ interest[efd].data = WakeTag
  /\ EPOLLIN \in interest[efd].events

\* C19: clearInterrupt never blocks: it can always run to its end; called
\* with no signal pending it leaves the wake counter at 0 and the interest
\* list and the ready list as they were; and an interrupt that comes after
\* such a call and writes a value the counter takes is recorded, with the
\* wake descriptor on the ready list.
C19_ClearNeverBlocks ==
  [][/\ ENABLED ClearInterrupt
     /\ (ClearInterrupt /\ efd_count = 0)
          => /\ efd_count' = 0
             /\ interest' = interest /\ rdllist' = rdllist
     /\ \A d \in 1..(ULLONG_MAX - 1) :
          (Interrupt(d) /\ cleared = 0 /\ WakeRegistered)
            => efd_count' = d /\ efd \in Range(rdllist')]_vars

\* a select reported the socket's event and not the wake tag, and
\* clearInterrupt was then called with no signal pending
C19_Witness ==
  /\ wpc = "idle" /\ result = <<1>> /\ events[1].data = UserTag
  /\ cleared = 0 /\ efd_count = 0 /\ WakeRegistered

(***************************************************************************)
(* Properties of the lifetime of a state                                   *)
(***************************************************************************)
\* getReadBufferAddress, lines 43-47: the address of slot idx's buffer
getReadBufferAddress(idx) == msg_iov[idx + 1].iov_base

\* C13: after init with a pool of one or more slots and freeNativeMemory,
\* the buffer and the iovec of every slot were freed, each once.
C13_DestroyFreesEverySlot ==
  (lpc = "freed" /\ udp_rcv_len >= 1) =>
    \A i \in 1..udp_rcv_len :
      heap[Block("buffer", i)] = 1 /\ heap[Block("iovec", i)] = 1

\* C14: after init, any calls of the other entry points and then
\* freeNativeMemory, the epoll descriptor and the wake descriptor are closed;
\* and both are closed whenever a block of the state has been freed.
C14_DescriptorsClosedBeforeFrees ==
  /\ lpc = "freed" => open_fds = {}
  /\ (\E b \in DOMAIN heap : heap[b] > 0) => open_fds = {}

\* freeNativeMemory ran to its end on a state that ctl, select, interrupt,
\* clearInterrupt and recvmmsg had been called on
C14_Witness ==
  /\ lpc = "freed" /\ open_fds = {}
  /\ nctl > 0 /\ result # <<>> /\ rres # <<>> /\ cleared >= 1
  /\ heap[Block("state", 0)] = 1

\* C15: when a call of init fails, init reports the failure, and no
\* descriptor it opened is open and no block it allocated is allocated.
C15_FailedInitReleasesEverything ==
  init_fail # NoFailure =>
    /\ init_ret = "error"
    /\ open_fds = {}
    /\ Live(heap) = {}

\* C18: from init to freeNativeMemory no step changes the number of slots, a
\* slot's capacity or a slot's buffer address; a return of recvmmsg changes
\* msg_len and buffer contents of the slots it filled at most, and every
\* other step leaves the pool as it was.
C18_PoolShapeFixed ==
  [][Alive =>
       /\ udp_rcv_len' = udp_rcv_len
       /\ Len(udp_rcv') = udp_rcv_len /\ Len(iov_base') = udp_rcv_len
       /\ \A i \in 1..udp_rcv_len :
            /\ udp_rcv'[i].iov_len = udp_rcv[i].iov_len
            /\ Len(iov_base'[i]) = Len(iov_base[i])
            /\ getReadBufferAddress(i - 1)' = getReadBufferAddress(i - 1)
       /\ IF IsRecvReturn
          THEN SlotsFromUnchanged(IF rres'[1].ret > 0 THEN rres'[1].ret ELSE 0)
          ELSE udp_rcv' = udp_rcv /\ iov_base' = iov_base]_vars

\* on a state that ctl and select were called on, a recvmmsg that filled both
\* slots was followed by one that filled the first only
C18_Witness ==
  /\ Alive /\ udp_rcv_len = 2 /\ nctl > 0 /\ result # <<>>
  /\ rres = <<[ret |-> 1, errno |-> ""]>>
  /\ Len(delivered[SockNonBlocking]) = 3
  /\ udp_rcv[2].msg_len = 1

\* C20: for every pool size init accepts, 0 included, freeNativeMemory reads
\* the header of no slot outside the pool.
C20_DestroyReadsOnlyPoolSlots ==
  oob = {}

====
